---- MODULE Spec2Model ----
(***************************************************************************)
(* Per-connection signalling engine of src/ws/mod.rs: on_connection,       *)
(* handle (Authenticate phase, Initialize-Transports phase) and            *)
(* event_loop, for a fixed set of connection tasks that share one room     *)
(* registry.  The room, its user registry, its router and its broadcast    *)
(* channel are collaborators that live outside src/ws; they are modelled   *)
(* from the interface the specification gives them.  The tasks run on a    *)
(* multi-threaded runtime: a step of a task is one resumption, from the    *)
(* await it is suspended at (pc) to the next one.                          *)
(***************************************************************************)
EXTENDS Integers, Sequences, FiniteSets, TLC

(* ------------------------------ bounds -------------------------------- *)

\* Capacity of a subscriber's broadcast buffer before it lags.
QueueCap == 1

(* ----------------------------- value sets ----------------------------- *)

Conns == {"c1", "c2"}

None == "None"

RoomIds == {"r1", "r0"}

Users == {"u1", "u2"}

Tokens == {"t1", "t2", "bad"}

CommandIds == {None, "a"}

ProduceTypes == {"audio"}

\* WSCommandType variants (types.rs is consumed through these four tags).
CommandTypes == {"Authenticate", "InitializeTransports", "ConnectTransport", "RoomInfo"}

\* WSCloseType discriminants.
InvalidData == 1003

InvalidState == 1002

Unauthorized == 4001

Kicked == 4003

RoomClosed == 4004

ServerError == 1011

WSCloseType == {InvalidData, InvalidState, Unauthorized, Kicked, RoomClosed, ServerError}

\* impl Display for WSCloseType.
to_string(t) ==
    CASE t = InvalidData -> "Unable to parse data"
      [] t = InvalidState -> "Command executed in invalid state"
      [] t = Unauthorized -> "Invalid token"
      [] t = Kicked -> "You have been kicked!"
      [] t = RoomClosed -> "Room has been closed"
      [] t = ServerError -> "Internal Server Error"

\* Result<(), WSCloseType> of handle and event_loop.
Ok == [ok |-> TRUE, err |-> 0]

Err(t) == [ok |-> FALSE, err |-> t]

\* handle has not returned.
NoResult == [ok |-> FALSE, err |-> 0]

\* Message::close(): a close frame with no code.
Close == [plain |-> TRUE, code |-> 0, reason |-> ""]

\* Message::close_with(code, reason).
CloseWith(code, reason) == [plain |-> FALSE, code |-> code, reason |-> reason]

\* A supervisor that drops the close reason.
OnConnection_Mut(result) == Close

\* The close frame on_connection sends for a result of handle.
OnConnection(result) ==
    IF result.ok THEN Close ELSE CloseWith(result.err, to_string(result.err))

(* ------------------------------ inbound ------------------------------- *)

\* init_data / connect_data: parameters the transport accepts or refuses.
TransportData == {"good", "bad"}

Malformed ==
    [id |-> None, type |-> "Malformed", room_id |-> None, token |-> None, data |-> None]

\* WSCommand { id, command_type }.
Commands ==
    [id : CommandIds, type : {"Authenticate"}, room_id : RoomIds, token : Tokens,
     data : {None}]
    \cup [id : CommandIds, type : {"InitializeTransports", "ConnectTransport"},
          room_id : {None}, token : {None}, data : TransportData]
    \cup [id : CommandIds, type : {"RoomInfo"}, room_id : {None}, token : {None},
          data : {None}]

\* Payloads of text frames: well-formed commands and one unparseable text.
Texts == Commands \cup {Malformed}

\* What ws_stream.next() can yield: None, Some(Err), a non-text message,
\* a text message.
Frames ==
    [k : {"End", "Err", "NonText"}, text : {Malformed}]
    \cup [k : {"Text"}, text : Texts]

\* The frames whose Authenticate commands, if any, carry a token of TS.
FramesWith(TS) == {f \in Frames : f.text.token \in TS \cup {None}}

\* A decoding that takes every message for text.
ToStr_Mut(f) == [ok |-> TRUE, val |-> f.text]

\* message.to_str(): Ok(text) for a text message only.
ToStr(f) == [ok |-> f.k = "Text", val |-> f.text]

\* serde_json::from_str::<WSCommand>(text).
FromStr(text) == [ok |-> text \in Commands, val |-> text]

\* A parse failure reported as a server error.
FromSerdeError_Mut == ServerError

\* impl From<serde_json::Error> for WSCloseType.
FromSerdeError == InvalidData

\* A send failure reported as a protocol error.
FromWarpError_Mut == InvalidState

\* impl From<warp::Error> for WSCloseType.
FromWarpError == ServerError

(* ------------------------------ outbound ------------------------------ *)

\* A policy flag that has been switched on.
VideoAllowed_Mut == TRUE

\* WSReplyType::RoomInfo { video_allowed: false, .. }
VideoAllowed == FALSE

\* An outbound text message; the fields a variant lacks are None / {}, and
\* video_allowed is FALSE where the variant lacks it.
Envelope(kind, id, type, user, room_id, users, produce_type, error) ==
    [kind |-> kind, id |-> id, type |-> type, user |-> user, room_id |-> room_id,
     users |-> users, produce_type |-> produce_type, error |-> error,
     video_allowed |-> (kind = "reply" /\ type = "RoomInfo" /\ VideoAllowed)]

\* A reply that carries the user's id where the command's id belongs.
AuthenticateReply_Mut(id, uid, rid) ==
    Envelope("reply", uid, "Authenticate", uid, rid, {}, None, None)

\* WSReply { id, reply_type: WSReplyType::Authenticate { user_id, room_id, .. } }.
AuthenticateReply(id, uid, rid) ==
    Envelope("reply", id, "Authenticate", uid, rid, {}, None, None)

\* A reply of the previous phase's variant.
InitializeTransportsReply_Mut(id) ==
    Envelope("reply", id, "Authenticate", None, None, {}, None, None)

\* WSReply { id, reply_type: WSReplyType::InitializeTransports { reply_data } }.
InitializeTransportsReply(id) ==
    Envelope("reply", id, "InitializeTransports", None, None, {}, None, None)

\* WSReply { id, reply_type: WSReplyType::ConnectTransport }.
ConnectTransportReply(id) ==
    Envelope("reply", id, "ConnectTransport", None, None, {}, None, None)

\* A snapshot that lists nobody.
RoomInfoReply_Mut(id, rid, users) ==
    Envelope("reply", id, "RoomInfo", None, rid, {}, None, None)

\* WSReply { id, reply_type: WSReplyType::RoomInfo { id, video_allowed, users } }.
RoomInfoReply(id, rid, users) ==
    Envelope("reply", id, "RoomInfo", None, rid, users, None, None)

\* WSEvent::{UserJoined, UserLeft, UserStartProduce, UserStopProduce}.
WSEvent(ev) == Envelope("event", None, ev.type, ev.id, None, {}, ev.produce_type, None)

\* An error envelope that loses the correlation id.
FromCommand_Mut(command, error) ==
    Envelope("error", None, command.type, None, None, {}, None, error)

\* WSError::from_command(command, error).
FromCommand(command, error) ==
    Envelope("error", command.id, command.type, None, None, {}, None, error)

\* No message: ws_sink.send is not awaited.
NoEnvelope == Envelope(None, None, None, None, None, {}, None, None)

(* --------------------------- room broadcasts -------------------------- *)

\* RoomEvent.
RoomEvents ==
    [type : {"UserJoined", "UserLeft"}, id : Users, produce_type : {None}]
    \cup [type : {"UserStartProduce", "UserStopProduce"}, id : Users,
          produce_type : ProduceTypes]
    \cup [type : {"RoomDelete"}, id : {None}, produce_type : {None}]

\* Err(RecvError::Lagged) and Err(RecvError::Closed) of room_stream.recv().
RecvErrors == [type : {"Lagged", "Closed"}, id : {None}, produce_type : {None}]

NoEvent == [type |-> None, id |-> None, produce_type |-> None]

NoFrame == [k |-> None, text |-> Malformed]

\* What a task's latest iteration took, and in which phase: nothing yet, an
\* inbound item (src "ws"), the result of room.subscribe() (src
\* "subscribe"), or the result of room_stream.recv() (src "room"); sendOk is
\* the result of the iteration's ws_sink.send, TRUE until it completes.
Taken(ph, src, f, ev, sendOk) ==
    [phase |-> ph, src |-> src, f |-> f, ev |-> ev, sendOk |-> sendOk]


(* ------------------------------- state -------------------------------- *)

VARIABLES
    phase,      \* the loop each connection task is in, or how far it has ended
    pc,         \* the await the task is suspended at
    room,       \* the room handle bound by Authenticate
    user_id,    \* the id bound by Authenticate
    rtc,        \* the RtcState held by the event loop
    sending,    \* the message handed to ws_sink.send, not yet sent
    reads,      \* user.read() awaits the RoomInfo arm has still to complete
    returned,   \* what handle returned
    outbound,   \* what the task sent through ws_sink for its latest input
    attempted,  \* the close frames on_connection handed to ws_sink.send
    close,      \* the close frames ws_sink.send sent, in order
    taken,      \* the input of the task's latest iteration
    queue,      \* the broadcast receiver's buffered events
    lagged,     \* the broadcast receiver was overrun
    listed,     \* rooms Room::get finds
    router,     \* rooms whose router is present
    sender,     \* rooms whose broadcast channel can be subscribed to
    members,    \* the user registry of each room
    guards,     \* tasks that hold the guard of their room's registry
    removeCalls,\* calls of users.remove made by the connection task
    registerCalls, \* calls of users.register made by the connection task
    owed,       \* events broadcast to the task's receiver, not yet forwarded
    missed,     \* events broadcast while registered but not yet subscribed
    deleted,    \* tasks subscribed when RoomDelete was broadcast
    pending,    \* the inbound item that has arrived and was not yet taken
    recvs       \* parity of the number of recv() results the task handled

vars == <<phase, pc, room, user_id, rtc, sending, reads, returned, outbound, attempted,
          close, taken, queue, lagged, listed, router, sender, members, guards,
          removeCalls, owed, missed, deleted, pending, recvs, registerCalls>>

connVars == <<phase, pc, room, user_id, rtc, sending, reads, returned, outbound,
              attempted, close, taken, removeCalls, registerCalls>>

histVars == <<owed, missed, deleted>>

arrivalVars == <<pending, recvs>>

roomFlags == <<listed, router, sender>>

Init ==
    /\ phase = [c \in Conns |-> "Unauthenticated"]
    /\ pc = [c \in Conns |-> "next"]
    /\ room = [c \in Conns |-> None]
    /\ user_id = [c \in Conns |-> None]
    /\ rtc = [c \in Conns |-> None]
    /\ sending = [c \in Conns |-> NoEnvelope]
    /\ reads = [c \in Conns |-> 0]
    /\ returned = [c \in Conns |-> NoResult]
    /\ outbound = [c \in Conns |-> <<>>]
    /\ attempted = [c \in Conns |-> <<>>]
    /\ close = [c \in Conns |-> <<>>]
    /\ taken = [c \in Conns |-> Taken("Unauthenticated", None, NoFrame, NoEvent, TRUE)]
    /\ queue = [c \in Conns |-> <<>>]
    /\ lagged = [c \in Conns |-> FALSE]
    /\ listed = {"r1"}
    /\ router = {"r1"}
    /\ sender = {"r1"}
    /\ members = [r \in RoomIds |-> {}]
    /\ guards = {}
    /\ removeCalls = [c \in Conns |-> 0]
    /\ registerCalls = [c \in Conns |-> 0]
    /\ owed = [c \in Conns |-> {}]
    /\ missed = [c \in Conns |-> {}]
    /\ deleted = {}
    /\ pending = [c \in Conns |-> NoFrame]
    /\ recvs = [c \in Conns |-> 0]

(* ----------------------- collaborators of the core -------------------- *)

\* The user a token stands for in a room's registry (None: unknown token).
TokenUser(token) ==
    CASE token = "t1" -> "u1"
      [] token = "t2" -> "u2"
      [] OTHER -> None

\* users.register(&token): the user, or None for an unknown token and for a
\* token whose user is already registered.
UsersRegister(registry, token) ==
    IF TokenUser(token) # None /\ TokenUser(token) \notin registry
    THEN TokenUser(token)
    ELSE None

\* RtcState::initialize(router, init_data) and
\* rtc_state.connect_transport(connect_data): Ok for parameters the
\* transport accepts.
TransportAccepts(data) == data = "good"

\* users.remove(&user_id): idempotent.
UsersRemove(registry, uid) == registry \ {uid}

\* users.register and users.remove change the registry of room r only while
\* no task holds its guard.
Unguarded(r) == \A d \in guards : room[d] # r

\* The receivers of a room's broadcast channel: the connections in its event loop.
Subscribers(r) == {c \in Conns : phase[c] = "Active" /\ room[c] = r}

\* sender.send(ev) as one receiver sees it: the event is buffered, or the
\* receiver is overrun and its next recv() fails.
Deliver(q, ev) == IF Len(q) < QueueCap THEN Append(q, ev) ELSE <<>>

(* ------------------------ effects of one resumption ------------------- *)

\* What a task does from the await it resumes at to the next one: how it
\* leaves the loop iteration (tag), the result it returns, the messages whose
\* send completed, the user it registered, the room it bound, whether handle
\* calls users.remove before it returns, the RtcState it holds, whether it
\* called users.register, the await it suspends at (at), the message it
\* handed to ws_sink.send (env), whether it holds the registry's guard and
\* the user.read() awaits it has still to complete under it (reads).
Effect(tag, result, send, reg, rid, remove, state) ==
    [tag |-> tag, result |-> result, send |-> send, reg |-> reg, rid |-> rid,
     remove |-> remove, state |-> state, called |-> reg # None,
     at |-> "next", env |-> NoEnvelope, guard |-> FALSE, reads |-> 0]

Skip == Effect("skip", Ok, <<>>, None, None, FALSE, None)

Return(result) == Effect("return", result, <<>>, None, None, FALSE, None)

\* The task suspends at the await `at`; env is the message of a ws_sink.send.
Await(at, env) ==
    [Effect("await", Ok, <<>>, None, None, FALSE, None) EXCEPT !.at = at, !.env = env]

\* if let WSCommandType::Authenticate { .. } = out.command_type
IsAuthenticate(command) == command.type = "Authenticate"

\* A pattern that only rules out a repeated Authenticate.
IsInitializeTransports_Mut(command) == command.type # "Authenticate"

\* if let WSCommandType::InitializeTransports { .. } = out.command_type
IsInitializeTransports(command) == command.type = "InitializeTransports"

\* Room::get(&room_id).await.ok_or(WSCloseType::Unauthorized)
RoomNotFound == Unauthorized

\* A refused registration reported as a protocol error.
RegisterRefused_Mut == InvalidState

\* users.register(&token).await.ok_or(WSCloseType::Unauthorized)
RegisterRefused == Unauthorized

\* A stream-end arm with the clean-up of the next loop.
StreamEndBeforeAuthenticate_Mut == Effect("return", Ok, <<>>, None, None, TRUE, None)

\* None => return Ok(())
StreamEndBeforeAuthenticate == Return(Ok)

\* handle, "Authentication" loop, resumed at pc[c]: at ws_stream.next() with
\* the item f it yields, else at an await of the iteration that took f;
\* sendOk is the result of ws_sink.send when that is the await.
Authenticate(c, f, sendOk) ==
    LET out == FromStr(ToStr(f).val)
        rid == out.val.room_id
    IN
    CASE pc[c] = "next" ->
            IF f.k = "End" THEN StreamEndBeforeAuthenticate
            ELSE IF f.k = "Err" THEN Return(Err(ServerError))
            ELSE IF ~ToStr(f).ok THEN Skip
            ELSE IF ~out.ok THEN Return(Err(FromSerdeError))
            ELSE IF ~IsAuthenticate(out.val) THEN Return(Err(InvalidState))
            ELSE Await("get", NoEnvelope)
      [] pc[c] = "get" ->
            IF rid \notin listed THEN Return(Err(RoomNotFound))
            ELSE Await("register", NoEnvelope)
      [] pc[c] = "register" ->
            LET id == UsersRegister(members[rid], out.val.token) IN
            IF id = None THEN [Return(Err(RegisterRefused)) EXCEPT !.called = TRUE]
            ELSE [Await("read", NoEnvelope) EXCEPT !.reg = id, !.rid = rid, !.called = TRUE]
      [] pc[c] = "read" ->
            IF room[c] \notin router THEN Return(Err(RoomClosed))
            ELSE Await("send", AuthenticateReply(out.val.id, user_id[c], room[c]))
      [] pc[c] = "send" ->
            IF ~sendOk THEN Return(Err(FromWarpError))
            ELSE Effect("break", Ok, <<sending[c]>>, None, None, FALSE, None)

\* A stream-end arm that returns without the clean-up.
StreamEndAfterAuthenticate_Mut == Return(Ok)

\* None => { room.users().remove(&user_id).await.ok(); return Ok(()); }
StreamEndAfterAuthenticate == Effect("return", Ok, <<>>, None, None, TRUE, None)

\* handle, "Transport initialization" loop, resumed at pc[c].
InitializeTransports(c, f, sendOk) ==
    LET out == FromStr(ToStr(f).val) IN
    CASE pc[c] = "next" ->
            IF f.k = "End" THEN StreamEndAfterAuthenticate
            ELSE IF f.k = "Err" THEN Return(Err(ServerError))
            ELSE IF ~ToStr(f).ok THEN Skip
            ELSE IF ~out.ok THEN Return(Err(FromSerdeError))
            ELSE IF ~IsInitializeTransports(out.val) THEN Return(Err(InvalidState))
            ELSE IF room[c] \notin router THEN Return(Err(RoomClosed))
            ELSE Await("initialize", NoEnvelope)
      [] pc[c] = "initialize" ->
            IF ~TransportAccepts(out.val.data) THEN Return(Err(ServerError))
            ELSE [Await("send", InitializeTransportsReply(out.val.id))
                    EXCEPT !.state = "Initialized"]
      [] pc[c] = "send" ->
            IF ~sendOk THEN Return(Err(FromWarpError))
            ELSE Effect("break", Ok, <<sending[c]>>, None, None, FALSE, None)

\* A handle that returns the event loop's result at once.
AfterEventLoop_Mut(e) == e

\* handle, after event_loop: room.users().remove(&user_id), then the result.
AfterEventLoop(e) == IF e.tag = "return" THEN [e EXCEPT !.remove = TRUE] ELSE e

\* The RoomInfo arm with the guard held: suspended at the user.read() of one
\* of n users still to read, or, all read, at the send of the reply built
\* from the registry.
ReadUsers(c, out, n) ==
    IF n > 0
    THEN [Await("read", NoEnvelope) EXCEPT !.guard = TRUE, !.reads = n]
    ELSE [Await("send", RoomInfoReply(out.id, room[c], members[room[c]]))
            EXCEPT !.guard = TRUE]

\* event_loop, the ws_stream.next() branch of select!, resumed at pc[c].  The
\* RoomInfo arm acquires the registry's guard, awaits user.read() once for
\* each registered user and holds the guard until its send has completed.
EventLoopMessage(c, f, sendOk) ==
    LET out == FromStr(ToStr(f).val) IN
    CASE pc[c] = "next" ->
            IF f.k = "End" THEN Return(Ok)
            ELSE IF f.k = "Err" THEN Return(Err(ServerError))
            ELSE IF ~ToStr(f).ok THEN Skip
            ELSE IF ~out.ok THEN Return(Err(FromSerdeError))
            ELSE IF out.val.type = "ConnectTransport" THEN Await("connect", NoEnvelope)
            ELSE IF out.val.type = "RoomInfo" THEN Await("guard", NoEnvelope)
            ELSE Return(Err(InvalidState))
      [] pc[c] = "connect" ->
            IF TransportAccepts(out.val.data)
            THEN Await("send", ConnectTransportReply(out.val.id))
            ELSE Await("send", FromCommand(out.val, "TransportConnectionFailure"))
      [] pc[c] = "guard" -> ReadUsers(c, out.val, Cardinality(members[room[c]]))
      [] pc[c] = "read" -> ReadUsers(c, out.val, reads[c] - 1)
      [] pc[c] = "send" ->
            IF ~sendOk THEN Return(Err(FromWarpError))
            ELSE Effect("continue", Ok, <<sending[c]>>, None, None, FALSE, None)

\* A comparison of ids turned around.
IsKick_Mut(event, uid) == event.type = "UserLeft" /\ event.id # uid

\* RoomEvent::UserLeft(id) => if id == user_id
IsKick(event, uid) == event.type = "UserLeft" /\ event.id = uid

\* A suppression that forgets the produce events.
IsOwnAction_Mut(event, uid) == event.type = "UserJoined" /\ event.id = uid

\* A suppression that ignores whose action it is.
IsOwnAction_MutAll(event, uid) ==
    event.type \in {"UserJoined", "UserStartProduce", "UserStopProduce"}

\* RoomEvent::{UserJoined, UserStartProduce, UserStopProduce}: if id != user_id
\* fails, nothing is sent.
IsOwnAction(event, uid) ==
    /\ event.type \in {"UserJoined", "UserStartProduce", "UserStopProduce"}
    /\ event.id = uid

\* A room deletion reported as a kick.
RoomDeleted_Mut == Kicked

\* RoomEvent::RoomDelete => return Err(WSCloseType::RoomClosed)
RoomDeleted == RoomClosed

\* A broadcast branch that tells the client of its own removal before it
\* closes.
EventLoopEvent_Mut(c, recv, sendOk) ==
    LET event == recv.val IN
    CASE pc[c] = "next" ->
            IF ~recv.ok THEN Return(Err(ServerError))
            ELSE IF event.type = "RoomDelete" THEN Return(Err(RoomDeleted))
            ELSE IF IsOwnAction(event, user_id[c]) THEN Skip
            ELSE Await("send", WSEvent(event))
      [] pc[c] = "send" ->
            IF ~sendOk THEN Return(Err(FromWarpError))
            ELSE IF IsKick(event, user_id[c])
                THEN Effect("return", Err(Kicked), <<sending[c]>>, None, None, FALSE, None)
            ELSE Effect("continue", Ok, <<sending[c]>>, None, None, FALSE, None)

\* event_loop, the room_stream.recv() branch of select!, resumed at pc[c];
\* recv is the Result the receiver yielded in this iteration.
EventLoopEvent(c, recv, sendOk) ==
    LET event == recv.val IN
    CASE pc[c] = "next" ->
            IF ~recv.ok THEN Return(Err(ServerError))
            ELSE IF event.type = "RoomDelete" THEN Return(Err(RoomDeleted))
            ELSE IF IsKick(event, user_id[c]) THEN Return(Err(Kicked))
            ELSE IF IsOwnAction(event, user_id[c]) THEN Skip
            ELSE Await("send", WSEvent(event))
      [] pc[c] = "send" ->
            IF ~sendOk THEN Return(Err(FromWarpError))
            ELSE Effect("continue", Ok, <<sending[c]>>, None, None, FALSE, None)

\* event_loop entry: room.subscribe().ok_or(WSCloseType::RoomClosed)?
Subscribe(c) ==
    IF room[c] \in sender THEN Effect("break", Ok, <<>>, None, None, FALSE, None)
    ELSE Return(Err(RoomClosed))

\* room_stream.recv(): Lagged once overrun, else the oldest buffered event,
\* else Closed when the sender is gone.
Recv(c) ==
    IF lagged[c] THEN [ok |-> FALSE, val |-> [NoEvent EXCEPT !.type = "Lagged"]]
    ELSE IF queue[c] = <<>> THEN [ok |-> FALSE, val |-> [NoEvent EXCEPT !.type = "Closed"]]
    ELSE [ok |-> TRUE, val |-> Head(queue[c])]

\* The state a connection task is left in by one resumption with effect e;
\* `in` is the input of the iteration it belongs to.
Apply(c, e, in) ==
    /\ taken' = [taken EXCEPT ![c] = in]
    /\ owed' = [owed EXCEPT ![c] =
                  IF e.tag = "return" THEN {}
                  ELSE IF e.send = <<WSEvent(in.ev)>> THEN @ \ {in.ev}
                  ELSE @]
    /\ missed' = [missed EXCEPT ![c] =
                    IF e.tag = "return" \/ (e.tag = "break" /\ phase[c] = "Subscribing")
                    THEN {} ELSE @]
    /\ UNCHANGED <<deleted, removeCalls, attempted, close>>
    /\ outbound' = [outbound EXCEPT ![c] = IF pc[c] = "next" THEN e.send ELSE @ \o e.send]
    /\ sending' = [sending EXCEPT ![c] = e.env]
    /\ reads' = [reads EXCEPT ![c] = e.reads]
    /\ returned' = [returned EXCEPT ![c] = IF e.tag = "return" THEN e.result ELSE @]
    /\ user_id' = [user_id EXCEPT ![c] = IF e.reg # None THEN e.reg ELSE @]
    /\ room' = [room EXCEPT ![c] = IF e.reg # None THEN e.rid ELSE @]
    /\ registerCalls' = [registerCalls EXCEPT ![c] = IF e.called THEN @ + 1 ELSE @]
    /\ members' = IF e.reg # None THEN [members EXCEPT ![e.rid] = @ \cup {e.reg}]
                  ELSE members
    /\ guards' = IF e.guard THEN guards \cup {c} ELSE guards \ {c}
    /\ rtc' = [rtc EXCEPT ![c] = IF e.state # None THEN e.state ELSE @]
    /\ pc' = [pc EXCEPT ![c] =
                CASE e.tag = "return" -> IF e.remove THEN "remove" ELSE "close"
                  [] e.tag = "await" -> e.at
                  [] OTHER -> "next"]
    /\ phase' = [phase EXCEPT ![c] =
                    CASE e.tag = "return" -> "Closing"
                      [] e.tag = "break" /\ phase[c] = "Unauthenticated" -> "Authenticated"
                      [] e.tag = "break" /\ phase[c] = "Authenticated" -> "Subscribing"
                      [] e.tag = "break" /\ phase[c] = "Subscribing" -> "Active"
                      [] OTHER -> @]

(* ------------------------------- actions ------------------------------ *)
\* A task runs from one await to the next in one step.  An action of a loop
\* is the loop's iteration on inbound item f, taken one resumption at a
\* time: at pc "next" the task takes f, at any other pc it goes on with the
\* item it took; sendOk is the result of the ws_sink.send it resumes from.

\* The room whose registry a resumption of the authentication loop changes.
RegistersIn(c, f) == IF pc[c] = "register" THEN f.text.room_id ELSE None

\* A connection in the Authenticate phase: ws_stream.next(), Room::get,
\* users.register, user.read, ws_sink.send.
AuthenticateStep(c, f, sendOk) ==
    /\ phase[c] = "Unauthenticated"
    /\ pc[c] # "next" => f = taken[c].f
    /\ pc[c] # "send" => sendOk
    /\ Unguarded(RegistersIn(c, f))
    /\ LET e == Authenticate(c, f, sendOk)
       IN Apply(c, e, Taken(phase[c], "ws", f, NoEvent, sendOk))
    /\ UNCHANGED <<queue, lagged, roomFlags>>

\* A connection in the Initialize-Transports phase: ws_stream.next(),
\* RtcState::initialize, ws_sink.send.
InitializeTransportsStep(c, f, sendOk) ==
    /\ phase[c] = "Authenticated"
    /\ pc[c] # "next" => f = taken[c].f
    /\ pc[c] # "send" => sendOk
    /\ LET e == InitializeTransports(c, f, sendOk)
       IN Apply(c, e, Taken(phase[c], "ws", f, NoEvent, sendOk))
    /\ UNCHANGED <<queue, lagged, roomFlags>>

\* event_loop entry: room.subscribe().ok_or(RoomClosed)?
EventLoopEnter(c) ==
    /\ phase[c] = "Subscribing"
    /\ LET e == AfterEventLoop(Subscribe(c))
       IN Apply(c, e, Taken(phase[c], "subscribe", NoFrame, NoEvent, TRUE))
    /\ UNCHANGED <<queue, lagged, roomFlags>>

\* The inbound branch of select!: ws_stream.next(), then connect_transport,
\* or users.guard and the user.read() of each user, then ws_sink.send.  A
\* return drops the receiver.
MessageStep(c, f, sendOk) ==
    /\ phase[c] = "Active"
    /\ pc[c] # "next" => taken[c].src = "ws" /\ f = taken[c].f
    /\ pc[c] # "send" => sendOk
    /\ LET e == AfterEventLoop(EventLoopMessage(c, f, sendOk))
       IN Apply(c, e, Taken(phase[c], "ws", f, NoEvent, sendOk))
    /\ queue' = [queue EXCEPT ![c] = IF phase'[c] = "Closing" THEN <<>> ELSE @]
    /\ lagged' = [lagged EXCEPT ![c] = IF phase'[c] = "Closing" THEN FALSE ELSE @]
    /\ UNCHANGED roomFlags

\* room_stream.recv() is ready: an event is buffered, the receiver was
\* overrun, or its sender is gone.
RoomReady(c) == lagged[c] \/ queue[c] # <<>> \/ room[c] \notin sender

\* The broadcast branch of select!: room_stream.recv(), which takes the
\* event out of the receiver, then ws_sink.send.  A return drops the receiver.
EventStep(c, sendOk) ==
    /\ phase[c] = "Active"
    /\ IF pc[c] = "next" THEN RoomReady(c) ELSE taken[c].src = "room" /\ pc[c] = "send"
    /\ pc[c] # "send" => sendOk
    /\ LET recv == IF pc[c] = "next" THEN Recv(c) ELSE [ok |-> TRUE, val |-> taken[c].ev]
           e == AfterEventLoop(EventLoopEvent(c, recv, sendOk))
       IN Apply(c, e, Taken(phase[c], "room", NoFrame, recv.val, sendOk))
    /\ queue' = [queue EXCEPT ![c] =
                    IF phase'[c] = "Closing" THEN <<>>
                    ELSE IF pc[c] = "next" /\ @ # <<>> THEN Tail(@)
                    ELSE @]
    /\ lagged' = [lagged EXCEPT ![c] = IF phase'[c] = "Closing" THEN FALSE ELSE @]
    /\ UNCHANGED roomFlags

\* handle: room.users().remove(&user_id).await.ok(), before it returns.
RemoveStep(c) ==
    /\ phase[c] = "Closing"
    /\ pc[c] = "remove"
    /\ Unguarded(room[c])
    /\ members' = [members EXCEPT ![room[c]] = UsersRemove(@, user_id[c])]
    /\ removeCalls' = [removeCalls EXCEPT ![c] = @ + 1]
    /\ pc' = [pc EXCEPT ![c] = "close"]
    /\ UNCHANGED <<phase, room, user_id, rtc, sending, reads, returned, outbound,
                   attempted, close, taken, registerCalls, guards, queue, lagged,
                   roomFlags, histVars>>

\* on_connection: ws_sink.send(close frame).await.ok(); closeOk is the
\* result the .ok() drops.
CloseStep(c, closeOk) ==
    /\ phase[c] = "Closing"
    /\ pc[c] = "close"
    /\ attempted' = [attempted EXCEPT ![c] = Append(@, OnConnection(returned[c]))]
    /\ close' = [close EXCEPT ![c] =
                    IF closeOk THEN Append(@, OnConnection(returned[c])) ELSE @]
    /\ phase' = [phase EXCEPT ![c] = "Closed"]
    /\ pc' = [pc EXCEPT ![c] = "done"]
    /\ UNCHANGED <<room, user_id, rtc, sending, reads, returned, outbound, taken,
                   removeCalls, registerCalls, members, guards, queue, lagged,
                   roomFlags, histVars>>

HandleAuthenticate(c, FS) == \E f \in FS, sendOk \in BOOLEAN : AuthenticateStep(c, f, sendOk)

HandleInitializeTransports(c, FS) ==
    \E f \in FS, sendOk \in BOOLEAN : InitializeTransportsStep(c, f, sendOk)

HandleMessage(c, FS) == \E f \in FS, sendOk \in BOOLEAN : MessageStep(c, f, sendOk)

HandleEvent(c) == \E sendOk \in BOOLEAN : EventStep(c, sendOk)

HandleClose(c) == \E closeOk \in BOOLEAN : CloseStep(c, closeOk)

\* The events a connection forwards: what another user does.
Forwardable(c, ev) ==
    /\ ev.type \in {"UserJoined", "UserLeft", "UserStartProduce", "UserStopProduce"}
    /\ ev.id # user_id[c]

\* The room's sender broadcasts ev to every receiver.
Broadcast(r, ev) ==
    /\ owed' = [c \in Conns |->
                  IF c \in Subscribers(r) /\ r \in sender /\ Forwardable(c, ev)
                  THEN owed[c] \cup {ev} ELSE owed[c]]
    /\ missed' = [c \in Conns |->
                    IF /\ phase[c] \in {"Authenticated", "Subscribing"}
                       /\ room[c] = r
                       /\ r \in sender
                       /\ Forwardable(c, ev)
                    THEN missed[c] \cup {ev} ELSE missed[c]]
    /\ deleted' = IF ev.type = "RoomDelete" /\ r \in sender
                  THEN deleted \cup Subscribers(r) ELSE deleted
    /\ queue' = [c \in Conns |->
                    IF c \in Subscribers(r) /\ r \in sender /\ ~lagged[c]
                    THEN Deliver(queue[c], ev) ELSE queue[c]]
    /\ lagged' = [c \in Conns |->
                    lagged[c] \/ (c \in Subscribers(r) /\ r \in sender
                                  /\ Len(queue[c]) >= QueueCap)]

\* Some party broadcasts an event in a room.
Publish(r, ev) ==
    /\ r \in sender
    /\ Subscribers(r) # {}
    /\ Broadcast(r, ev)
    /\ UNCHANGED <<connVars, roomFlags, members, guards, arrivalVars>>

\* Some other party removes a user from a room; the room announces it.
Kick(r, u) ==
    /\ u \in members[r]
    /\ Unguarded(r)
    /\ members' = [members EXCEPT ![r] = UsersRemove(@, u)]
    /\ Broadcast(r, [type |-> "UserLeft", id |-> u, produce_type |-> None])
    /\ UNCHANGED <<connVars, roomFlags, guards, arrivalVars>>

\* A client served by another task registers in a room.
Join(r, token) ==
    /\ r \in listed
    /\ Unguarded(r)
    /\ UsersRegister(members[r], token) # None
    /\ members' = [members EXCEPT ![r] = @ \cup {UsersRegister(members[r], token)}]
    /\ UNCHANGED <<connVars, roomFlags, guards, queue, lagged, histVars, arrivalVars>>

\* A room is torn down in stages: its broadcast sender is dropped, then its
\* router, then it leaves the registry.
Teardown(r) ==
    /\ r \in listed
    /\ IF r \in sender THEN sender' = sender \ {r} /\ UNCHANGED <<router, listed>>
       ELSE IF r \in router THEN router' = router \ {r} /\ UNCHANGED <<sender, listed>>
       ELSE listed' = listed \ {r} /\ UNCHANGED <<sender, router>>
    /\ UNCHANGED <<connVars, queue, lagged, members, guards, histVars, arrivalVars>>

\* The steps of the connection tasks CS whose clients send frames of FS,
\* each frame taken as it arrives.
Tasks(CS, FS) ==
    \/ \E c \in CS : HandleAuthenticate(c, FS) /\ UNCHANGED arrivalVars
    \/ \E c \in CS : HandleInitializeTransports(c, FS) /\ UNCHANGED arrivalVars
    \/ \E c \in CS : EventLoopEnter(c) /\ UNCHANGED arrivalVars
    \/ \E c \in CS : HandleMessage(c, FS) /\ UNCHANGED arrivalVars
    \/ \E c \in CS : HandleEvent(c) /\ UNCHANGED arrivalVars
    \/ \E c \in CS : RemoveStep(c) /\ UNCHANGED arrivalVars
    \/ \E c \in CS : HandleClose(c) /\ UNCHANGED arrivalVars

\* The steps of the rooms, broadcasting events of ES.
Rooms(ES) ==
    \/ \E r \in RoomIds, ev \in ES : Publish(r, ev)
    \/ \E r \in RoomIds, u \in Users : Kick(r, u)
    \/ \E r \in RoomIds : Teardown(r)

\* One connection against every input and every behaviour of its room; the
\* other clients of the room are served elsewhere.
Next ==
    \/ Tasks({"c1"}, FramesWith({"t1", "bad"}))
    \/ Rooms(RoomEvents)
    \/ \E r \in RoomIds, token \in Tokens : Join(r, token)

Spec == Init /\ [][Next]_vars

\* The frames of two clients that join room r1 and ask for its users, without
\* correlation ids and with parameters the transport accepts.
RoomFrames ==
    {f \in FramesWith({"t1", "t2"}) :
        /\ f.k \in {"End", "Text"}
        /\ f.text.type # "ConnectTransport"
        /\ f.text.id = None
        /\ f.text.room_id \in {"r1", None}
        /\ f.text.data \in {"good", None}}

\* The broadcasts of user u1 starting to produce and leaving, and of the
\* deletion of the room.
RoomEventsOfOne ==
    {ev \in RoomEvents :
        /\ ev.id \in {"u1", None}
        /\ ev.type \in {"UserStartProduce", "UserLeft", "RoomDelete"}}

\* Two connections sharing a room and its broadcasts.
NextRoom ==
    \/ Tasks(Conns, RoomFrames)
    \/ \E r \in RoomIds, ev \in RoomEventsOfOne : Publish(r, ev)

SpecRoom == Init /\ [][NextRoom]_vars

\* A select! with `biased;` in favour of the broadcast branch.
Select_Mut(wsReady, roomReady) ==
    IF roomReady THEN {"room"} ELSE IF wsReady THEN {"ws"} ELSE {}

\* tokio::select! over ws_stream.next() and room_stream.recv(): the branches
\* an iteration may take are the ready ones, in no order of preference.
Select(wsReady, roomReady) ==
    {b \in {"ws", "room"} : (b = "ws" /\ wsReady) \/ (b = "room" /\ roomReady)}

\* The client's next inbound item arrives at the connection.
Arrive(c, f) ==
    /\ phase[c] \notin {"Closing", "Closed"}
    /\ pending[c] = NoFrame
    /\ pending' = [pending EXCEPT ![c] = f]
    /\ UNCHANGED <<connVars, roomFlags, queue, lagged, members, guards, histVars, recvs>>

\* The task takes the item that has arrived: in the handshake by
\* ws_stream.next().await, in the event loop by the inbound branch of select!.
TakeFrame(c) ==
    /\ pending[c] # NoFrame
    /\ pc[c] = "next"
    /\ \/ AuthenticateStep(c, pending[c], TRUE)
       \/ InitializeTransportsStep(c, pending[c], TRUE)
       \/ /\ "ws" \in Select(TRUE, RoomReady(c))
          /\ MessageStep(c, pending[c], TRUE)
    /\ pending' = [pending EXCEPT ![c] = NoFrame]
    /\ UNCHANGED recvs

\* The task enters its event loop.
TakeSubscription(c) == EventLoopEnter(c) /\ UNCHANGED arrivalVars

\* The task takes the broadcast branch of select!.
TakeEvent(c) ==
    /\ phase[c] = "Active"
    /\ pc[c] = "next"
    /\ "room" \in Select(pending[c] # NoFrame, RoomReady(c))
    /\ EventStep(c, TRUE)
    /\ recvs' = [recvs EXCEPT ![c] = 1 - @]
    /\ UNCHANGED pending

\* The await the task is suspended at completes: a call of a collaborator,
\* a ws_sink.send, users.remove or the send of the close frame.
Proceed(c) ==
    /\ pc[c] \notin {"next", "done"}
    /\ \/ HandleAuthenticate(c, {taken[c].f})
       \/ HandleInitializeTransports(c, {taken[c].f})
       \/ HandleMessage(c, {taken[c].f})
       \/ HandleEvent(c)
       \/ RemoveStep(c)
       \/ HandleClose(c)
    /\ UNCHANGED arrivalVars

\* The items of a client that completes the handshake and then sends
\* commands, without correlation ids.
ArrivingFrames ==
    {f \in FramesWith({"t1"}) :
        /\ f.k \in {"Text", "NonText", "End"}
        /\ f.text.id = None
        /\ f.text.room_id \in {"r1", None}
        /\ f.k = "Text" => f.text \in Commands}

\* The broadcasts of a room in which user u2 comes and goes.
ArrivingEvents ==
    {ev \in RoomEvents : ev.id \in {"u2", None} /\ ev.produce_type = None}

\* One connection whose inbound items and broadcasts arrive independently
\* of its task.
NextArrivals ==
    \/ \E f \in ArrivingFrames : Arrive("c1", f)
    \/ TakeFrame("c1")
    \/ TakeSubscription("c1")
    \/ TakeEvent("c1")
    \/ Proceed("c1")
    \/ \E ev \in ArrivingEvents : Publish("r1", ev)

\* The task is scheduled whenever it can run, every await it is suspended at
\* completes, and select! takes each branch that is ready again and again.
SpecArrivals ==
    /\ Init
    /\ [][NextArrivals]_vars
    /\ SF_vars(TakeFrame("c1"))
    /\ WF_vars(TakeSubscription("c1"))
    /\ SF_vars(TakeEvent("c1"))
    /\ WF_vars(Proceed("c1"))

(* ------------------------------ claims -------------------------------- *)

\* The latest input of connection c is a text frame.
TookText(c) == taken[c].src = "ws" /\ taken[c].f.k = "Text"

\* The latest input of connection c is a well-formed command.
TookCommand(c) == TookText(c) /\ taken[c].f.text \in Commands

\* The latest input of connection c is a well-formed command of type t.
TookCommandOf(c, t) == TookCommand(c) /\ taken[c].f.text.type = t

\* The task of connection c has finished with its latest input: it awaits
\* the next one, or it has ended.
Settled(c) == pc[c] \in {"next", "done"}

\* handle has returned, and the task has not ended or has ended.
Ending == {"Closing", "Closed"}

\* Connection c terminates with close reason t: handle returned Err(t), and
\* the one close frame on_connection hands to ws_sink.send, as the task ends,
\* is that of t; it is sent unless that send fails.
ClosedWith(c, t) ==
    /\ phase[c] \in Ending
    /\ returned[c] = Err(t)
    /\ attempted[c] = IF phase[c] = "Closed" THEN <<CloseWith(t, to_string(t))>> ELSE <<>>
    /\ close[c] \in {<<>>, attempted[c]}

\* Connection c terminates successfully: handle returned Ok(()), and the one
\* close frame on_connection hands to ws_sink.send is the plain one.
ClosedPlain(c) ==
    /\ phase[c] \in Ending
    /\ returned[c] = Ok
    /\ attempted[c] = IF phase[c] = "Closed" THEN <<Close>> ELSE <<>>
    /\ close[c] \in {<<>>, attempted[c]}

\* The commands a phase permits.
PermittedIn(ph) ==
    CASE ph = "Unauthenticated" -> {"Authenticate"}
      [] ph = "Authenticated" -> {"InitializeTransports"}
      [] ph = "Active" -> {"ConnectTransport", "RoomInfo"}
      [] OTHER -> {}

\* The phase that follows ph when its step succeeds.
PhaseAfter(ph) ==
    CASE ph = "Unauthenticated" -> "Authenticated"
      [] ph = "Authenticated" -> "Subscribing"
      [] ph = "Subscribing" -> "Active"
      [] OTHER -> ph

\* C1: every connection that registered a user has called users.remove by
\* the time handle has returned, whatever the terminal outcome.
C1_RemovedBeforeReturn ==
    \A c \in Conns :
        pc[c] \in {"close", "done"} /\ user_id[c] # None => removeCalls[c] >= 1

\* C2: a well-formed command the phase does not permit terminates the
\* connection with InvalidState and no reply; a phase is left only for the
\* next one, by the command it permits, or for termination.
C2_OutOfPhaseCommand ==
    \A c \in Conns :
        /\ (TookCommand(c) /\ taken[c].f.text.type \notin PermittedIn(taken[c].phase))
            => /\ ClosedWith(c, InvalidState)
               /\ outbound[c] = <<>>
               /\ sending[c] = NoEnvelope
        /\ phase[c] \in {taken[c].phase, PhaseAfter(taken[c].phase)} \cup Ending
        /\ (phase[c] \notin {taken[c].phase} \cup Ending /\ taken[c].src = "ws")
            => TookCommand(c) /\ taken[c].f.text.type \in PermittedIn(taken[c].phase)

C2_Witness ==
    \E c \in Conns :
        /\ TookCommandOf(c, "Authenticate")
        /\ taken[c].phase = "Active"
        /\ phase[c] = "Closed"
        /\ ClosedWith(c, InvalidState)
        /\ close[c] = <<CloseWith(1002, "Command executed in invalid state")>>
        /\ outbound[c] = <<>>

\* C3: a text frame that does not parse as a command terminates the
\* connection with InvalidData in whichever phase it arrives, and nothing is
\* sent in response to it.
C3_MalformedText ==
    \A c \in Conns :
        (TookText(c) /\ taken[c].f.text \notin Commands)
            => /\ ClosedWith(c, InvalidData)
               /\ outbound[c] = <<>>
               /\ sending[c] = NoEnvelope

C3_Witness ==
    \E c \in Conns :
        /\ TookText(c)
        /\ taken[c].f.text \notin Commands
        /\ taken[c].phase = "Active"
        /\ phase[c] = "Closed"
        /\ ClosedWith(c, InvalidData)
        /\ close[c] = <<CloseWith(1003, "Unable to parse data")>>

\* In the action properties below a step of the task of connection c is told
\* by what it changes: in the handshake every resumption but a skipped item
\* changes pc[c], and every iteration records its input in taken'[c].

\* C4: an Authenticate naming a room Room::get does not find, or a token the
\* room's registry refuses, terminates the connection with Unauthorized,
\* sends no reply and leaves every room's registry as it was: the task
\* registers nobody before users.register has accepted the token.
C4_UnauthorizedAuthenticate ==
    /\ [](\A c \in Conns :
            /\ (phase[c] = "Unauthenticated" /\ pc[c] \in {"next", "get", "register"})
                => user_id[c] = None
            /\ (taken[c].phase = "Unauthenticated" /\ ClosedWith(c, Unauthorized))
                => user_id[c] = None /\ outbound[c] = <<>>)
    /\ [][\A c \in Conns :
            LET f == taken[c].f IN
            /\ (/\ phase[c] = "Unauthenticated"
                /\ \/ pc[c] = "get" /\ f.text.room_id \notin listed
                   \/ /\ pc[c] = "register"
                      /\ UsersRegister(members[f.text.room_id], f.text.token) = None
                /\ pc'[c] # pc[c])
                => /\ ClosedWith(c, Unauthorized)'
                   /\ outbound'[c] = <<>>
                   /\ members' = members
            /\ (/\ user_id'[c] = None
                /\ <<pc'[c], taken'[c]>> # <<pc[c], taken[c]>>)
                => members' = members]_vars

C4_Witness ==
    \E c \in Conns :
        /\ TookCommandOf(c, "Authenticate")
        /\ taken[c].f.text.room_id \in listed
        /\ taken[c].f.text.token = "bad"
        /\ phase[c] = "Closed"
        /\ ClosedWith(c, Unauthorized)
        /\ close[c] = <<CloseWith(4001, "Invalid token")>>
        /\ user_id[c] = None
        /\ outbound[c] = <<>>

\* The None item of ws_stream.next().
EndFrame == [k |-> "End", text |-> Malformed]

\* Connection c terminates because its stream ended between Authenticate and
\* InitializeTransports.
EndedAfterAuthenticate(c) ==
    /\ phase[c] \in Ending
    /\ taken[c].phase = "Authenticated"
    /\ taken[c].src = "ws"
    /\ taken[c].f.k = "End"

\* C5: a stream that ends after Authenticate and before InitializeTransports
\* makes the task call users.remove for its user and then terminate with a
\* plain close frame; a RoomInfo snapshot another connection takes after
\* that removal, and the reply it sends, do not list that user.
C5_StreamEndAfterAuthenticate ==
    /\ [](\A c \in Conns :
            EndedAfterAuthenticate(c)
            => /\ ClosedPlain(c)
               /\ outbound[c] = <<>>
               /\ pc[c] \in {"remove", "close", "done"}
               /\ removeCalls[c] = IF pc[c] = "remove" THEN 0 ELSE 1)
    /\ [][/\ \A c \in Conns :
                (EndedAfterAuthenticate(c) /\ pc[c] = "remove" /\ pc'[c] # "remove")
                => members' = [members EXCEPT ![room[c]] = @ \ {user_id[c]}]
          /\ \A c \in Conns, d \in Conns :
                (/\ d # c
                 /\ EndedAfterAuthenticate(c)
                 /\ removeCalls[c] = 1
                 /\ phase[d] = "Active"
                 /\ room[d] = room[c]
                 /\ user_id[d] # user_id[c]
                 /\ TookCommandOf(d, "RoomInfo"))
                => /\ (pc[d] \in {"guard", "read"} /\ pc'[d] = "send")
                        => /\ sending'[d].type = "RoomInfo"
                           /\ user_id[c] \notin sending'[d].users
                   /\ (pc[d] = "send" /\ pc'[d] = "next")
                        => outbound'[d] = <<sending[d]>>]_vars

C5_Witness ==
    \E c \in Conns : \E d \in Conns \ {c} :
        /\ EndedAfterAuthenticate(c)
        /\ phase[c] = "Closed"
        /\ close[c] = <<Close>>
        /\ removeCalls[c] = 1
        /\ user_id[c] \notin members[room[c]]
        /\ phase[d] = "Active"
        /\ room[d] = room[c]
        /\ TookCommandOf(d, "RoomInfo")
        /\ outbound[d] = <<RoomInfoReply(None, room[d], {user_id[d]})>>

\* The latest input of connection c is a ConnectTransport command, taken in
\* the event loop, whose parameters the transport refuses.
TookFailingConnect(c) ==
    /\ TookCommandOf(c, "ConnectTransport")
    /\ taken[c].phase = "Active"
    /\ ~TransportAccepts(taken[c].f.text.data)

\* The message m is the error envelope of the transport-connection-failure
\* kind for the latest input of connection c.
IsConnectFailure(c, m) ==
    /\ m.kind = "error"
    /\ m.error = "TransportConnectionFailure"
    /\ m.id = taken[c].f.text.id
    /\ m.type = "ConnectTransport"

\* Connection c is in the event loop, awaiting its next input, and was sent
\* exactly one message for its latest one: that error envelope.
SentConnectFailure(c) ==
    /\ phase[c] = "Active"
    /\ pc[c] = "next"
    /\ Len(outbound[c]) = 1
    /\ IsConnectFailure(c, outbound[c][1])

\* C6 as stated: a failing ConnectTransport, once handled, has yielded one
\* error envelope with the command's id and type and left the connection in
\* the event loop.
C6_ConnectFailureKeepsOpen ==
    \A c \in Conns : TookFailingConnect(c) /\ Settled(c) => SentConnectFailure(c)

\* C6 as amended: a failing ConnectTransport makes the task hand to
\* ws_sink.send one error envelope with the command's id and type; when that
\* send succeeds the connection stays in the event loop, where the next
\* ConnectTransport or RoomInfo command is taken up in turn; when it fails
\* nothing is sent and the connection terminates with ServerError.
C6_ConnectFailureReported ==
    /\ [](\A c \in Conns :
            TookFailingConnect(c) =>
                CASE pc[c] = "connect" -> phase[c] = "Active" /\ outbound[c] = <<>>
                  [] pc[c] = "send" -> /\ phase[c] = "Active"
                                       /\ outbound[c] = <<>>
                                       /\ IsConnectFailure(c, sending[c])
                  [] pc[c] = "next" -> SentConnectFailure(c) /\ taken[c].sendOk
                  [] OTHER -> /\ ClosedWith(c, ServerError)
                              /\ outbound[c] = <<>>
                              /\ ~taken[c].sendOk)
    /\ [][\A c \in Conns :
            LET f == taken'[c].f IN
            (/\ TookFailingConnect(c)
             /\ SentConnectFailure(c)
             /\ f.k = "Text"
             /\ f.text \in Commands
             /\ f.text.type \in {"ConnectTransport", "RoomInfo"}
             /\ MessageStep(c, f, TRUE))
            => /\ phase'[c] = "Active"
               /\ pc'[c] = IF f.text.type = "ConnectTransport" THEN "connect" ELSE "guard"
               /\ outbound'[c] = <<>>]_vars

C6_Witness ==
    \E c \in Conns :
        /\ TookFailingConnect(c)
        /\ taken[c].f.text.id = "a"
        /\ SentConnectFailure(c)

\* The latest input of connection c is a UserLeft broadcast.
TookUserLeft(c) == taken[c].src = "room" /\ taken[c].ev.type = "UserLeft"

\* The message m is the event envelope of the broadcast connection c took.
IsEventTaken(c, m) ==
    /\ m.kind = "event"
    /\ m.type = taken[c].ev.type
    /\ m.user = taken[c].ev.id
    /\ m.produce_type = taken[c].ev.produce_type

\* Connection c is in the event loop, awaiting its next input, and was sent
\* exactly one message for its latest one: the event envelope of the
\* broadcast it took.
ForwardedTaken(c) ==
    /\ phase[c] = "Active"
    /\ pc[c] = "next"
    /\ Len(outbound[c]) = 1
    /\ IsEventTaken(c, outbound[c][1])

\* C7 as stated: a UserLeft for the connection's own id terminates it with
\* Kicked in that iteration and sends nothing; a UserLeft for another id,
\* once handled, has been forwarded and has not terminated the connection.
C7_UserLeftKicksOrForwards ==
    \A c \in Conns :
        TookUserLeft(c) =>
            IF taken[c].ev.id = user_id[c]
            THEN ClosedWith(c, Kicked) /\ outbound[c] = <<>>
            ELSE Settled(c) => ForwardedTaken(c)

\* C7 as amended: as stated, except that a UserLeft for another id whose
\* forwarding send fails terminates the connection with ServerError.
C7_UserLeftKicksOrForwardsIfSent ==
    \A c \in Conns :
        TookUserLeft(c) =>
            IF taken[c].ev.id = user_id[c]
            THEN ClosedWith(c, Kicked) /\ outbound[c] = <<>> /\ sending[c] = NoEnvelope
            ELSE CASE pc[c] = "send" -> /\ phase[c] = "Active"
                                        /\ outbound[c] = <<>>
                                        /\ IsEventTaken(c, sending[c])
                   [] pc[c] = "next" -> ForwardedTaken(c) /\ taken[c].sendOk
                   [] OTHER -> /\ ClosedWith(c, ServerError)
                               /\ outbound[c] = <<>>
                               /\ ~taken[c].sendOk

C7_Witness ==
    \E c \in Conns :
        /\ TookUserLeft(c)
        /\ taken[c].ev.id = user_id[c]
        /\ taken[c].phase = "Active"
        /\ phase[c] = "Closed"
        /\ ClosedWith(c, Kicked)
        /\ close[c] = <<CloseWith(4003, "You have been kicked!")>>
        /\ outbound[c] = <<>>

\* The RoomDelete broadcast.
RoomDelete == [type |-> "RoomDelete", id |-> None, produce_type |-> None]

\* The events buffered in the receiver of connection c.
Buffered(c) == {queue[c][i] : i \in 1..Len(queue[c])}

\* C8 as stated: a connection that was subscribed when RoomDelete was
\* broadcast terminates with RoomClosed, whatever is interleaved.
C8_RoomDeleteClosesWithRoomClosed ==
    \A c \in deleted : phase[c] = "Closed" => ClosedWith(c, RoomClosed)

\* C8 as amended: a connection that was subscribed when RoomDelete was
\* broadcast keeps it buffered until it terminates, unless its receiver was
\* overrun, and terminates with RoomClosed in the iteration that takes it;
\* before that iteration it can terminate otherwise: with a plain close
\* (stream end), InvalidData, InvalidState, Kicked or ServerError.
C8_RoomDeleteClosesWhenTaken ==
    \A c \in Conns :
        /\ (taken[c].src = "room" /\ taken[c].ev.type = "RoomDelete")
            => ClosedWith(c, RoomClosed) /\ outbound[c] = <<>> /\ sending[c] = NoEnvelope
        /\ (c \in deleted /\ phase[c] \notin Ending)
            => phase[c] = "Active" /\ (RoomDelete \in Buffered(c) \/ lagged[c])
        /\ (c \in deleted /\ phase[c] \in Ending)
            => \/ ClosedWith(c, RoomClosed) /\ taken[c].ev.type = "RoomDelete"
               \/ ClosedWith(c, Kicked) /\ taken[c].ev.type = "UserLeft"
               \/ ClosedWith(c, ServerError) /\ taken[c].ev.type # "RoomDelete"
               \/ ClosedWith(c, InvalidData) /\ taken[c].src = "ws"
               \/ ClosedWith(c, InvalidState) /\ taken[c].src = "ws"
               \/ ClosedPlain(c) /\ taken[c].src = "ws" /\ taken[c].f.k = "End"

C8_Witness ==
    \A c \in Conns :
        /\ c \in deleted
        /\ taken[c].src = "room"
        /\ taken[c].ev.type = "RoomDelete"
        /\ phase[c] = "Closed"
        /\ ClosedWith(c, RoomClosed)
        /\ close[c] = <<CloseWith(4004, "Room has been closed")>>

\* The broadcasts of what a user does in the room.
UserActions == {"UserJoined", "UserStartProduce", "UserStopProduce"}

\* C9: no UserJoined, UserStartProduce or UserStopProduce event a connection
\* sends, or hands to ws_sink.send, carries its own user id; taking such a
\* broadcast for its own id sends nothing and leaves it in the event loop,
\* awaiting its next input.
C9_NoEchoOfOwnActions ==
    \A c \in Conns :
        /\ \A m \in {outbound[c][i] : i \in 1..Len(outbound[c])} \cup {sending[c]} :
            (m.kind = "event" /\ m.type \in UserActions) => m.user # user_id[c]
        /\ (/\ taken[c].src = "room"
            /\ taken[c].ev.type \in UserActions
            /\ taken[c].ev.id = user_id[c])
            => /\ phase[c] = "Active"
               /\ pc[c] = "next"
               /\ outbound[c] = <<>>
               /\ sending[c] = NoEnvelope

C9_Witness ==
    \E c \in Conns :
        /\ taken[c].src = "room"
        /\ taken[c].ev.type = "UserStopProduce"
        /\ taken[c].ev.id = user_id[c]
        /\ phase[c] = "Active"
        /\ pc[c] = "next"
        /\ outbound[c] = <<>>

\* Connection c is running, registered, and its receiver, if any, was not
\* overrun.
Live(c) == phase[c] \in {"Authenticated", "Subscribing", "Active"} /\ ~lagged[c]

\* The broadcast connection c has taken out of its receiver and not yet sent.
InHand(c) ==
    IF phase[c] = "Active" /\ pc[c] = "send" /\ taken[c].src = "room"
    THEN {taken[c].ev} ELSE {}

\* C10 as stated: every action of another user broadcast in the room of a
\* live registered connection is on its way to that connection (buffered in
\* its receiver, or taken and being sent) until the connection has forwarded
\* it.
C10_BroadcastReachesEveryMember ==
    \A c \in Conns :
        Live(c) => {ev \in owed[c] \cup missed[c] : ev.type \in UserActions}
                        \subseteq Buffered(c) \cup InHand(c)

\* C10 as amended: every action of another user broadcast while a connection
\* is subscribed (in its event loop) stays buffered in its receiver until the
\* connection takes it, and the iteration that takes it forwards it as the
\* matching event, unless the receiver is overrun, the send fails or the
\* connection terminates first; a connection that is registered but has not
\* yet entered its event loop gets none of them.
C10_BroadcastReachesEverySubscriber ==
    \A c \in Conns :
        /\ Live(c) => owed[c] \subseteq Buffered(c) \cup InHand(c)
        /\ phase[c] # "Active" => Buffered(c) = {} /\ InHand(c) = {}
        /\ (taken[c].src = "room" /\ Forwardable(c, taken[c].ev))
            => CASE pc[c] = "send" -> IsEventTaken(c, sending[c]) /\ outbound[c] = <<>>
                 [] pc[c] = "next" -> ForwardedTaken(c) /\ taken[c].sendOk
                 [] OTHER -> phase[c] \in Ending /\ ~taken[c].sendOk

C10_Witness ==
    \E c \in Conns : \E d \in Conns \ {c} :
        /\ phase[d] = "Active"
        /\ user_id[d] = "u1"
        /\ taken[c].src = "room"
        /\ taken[c].ev.type = "UserStartProduce"
        /\ taken[c].ev.id = user_id[d]
        /\ ForwardedTaken(c)
        /\ owed[c] = {}

\* The message m answers the latest input of connection c: a reply or error
\* envelope with the command's id and type.
Answers(c, m) ==
    /\ m.kind \in {"reply", "error"}
    /\ TookCommand(c)
    /\ m.id = taken[c].f.text.id
    /\ m.type = taken[c].f.text.type
    /\ m.kind = "error" => TookFailingConnect(c)

\* C11: a command that is applied, the connection staying open, is answered
\* by exactly one reply or error envelope, carrying the command's correlation
\* id and its type; no reply or error envelope is sent, or handed to
\* ws_sink.send, otherwise.
C11_OneReplyPerCommand ==
    \A c \in Conns :
        /\ (TookCommand(c) /\ pc[c] = "next")
            => Len(outbound[c]) = 1 /\ Answers(c, outbound[c][1])
        /\ \A i \in 1..Len(outbound[c]) :
            outbound[c][i].kind \in {"reply", "error"}
                => Len(outbound[c]) = 1 /\ Answers(c, outbound[c][1])
        /\ sending[c].kind \in {"reply", "error"}
            => pc[c] = "send" /\ outbound[c] = <<>> /\ Answers(c, sending[c])

C11_Witness ==
    \E c \in Conns :
        /\ TookCommandOf(c, "Authenticate")
        /\ taken[c].f.text.id = "a"
        /\ phase[c] = "Authenticated"
        /\ pc[c] = "next"
        /\ outbound[c] = <<AuthenticateReply("a", user_id[c], room[c])>>

\* C12: the RoomInfo reply is built from the room's registry under the
\* registry's guard, which the task holds from before its first user.read()
\* until the reply's send has completed: the reply lists exactly the users
\* registered, names the connection's room and has video_allowed false; the
\* registry does not change while the guard is held, and the reply sent is
\* the one built.
C12_RoomInfoSnapshot ==
    /\ [](\A c \in Conns :
            /\ c \in guards
                <=> /\ phase[c] = "Active"
                    /\ pc[c] \in {"read", "send"}
                    /\ TookCommandOf(c, "RoomInfo")
            /\ (c \in guards /\ pc[c] = "read")
                => /\ sending[c] = NoEnvelope
                   /\ reads[c] \in 1..Cardinality(members[room[c]])
            /\ (c \in guards /\ pc[c] = "send")
                => sending[c] = [RoomInfoReply(taken[c].f.text.id, room[c], members[room[c]])
                                    EXCEPT !.video_allowed = FALSE])
    /\ [][\A c \in Conns :
            /\ (phase[c] = "Active" /\ pc[c] = "guard" /\ pc'[c] # "guard")
                => /\ c \in guards'
                   /\ members' = members
                   /\ pc'[c] = IF members[room[c]] = {} THEN "send" ELSE "read"
            /\ (phase[c] = "Active" /\ pc[c] \in {"guard", "read"} /\ pc'[c] = "send")
                => /\ sending'[c].kind = "reply"
                   /\ sending'[c].type = "RoomInfo"
                   /\ sending'[c].users = members[room[c]]
                   /\ sending'[c].room_id = room[c]
                   /\ sending'[c].video_allowed = FALSE
            /\ c \in guards => members'[room[c]] = members[room[c]]
            /\ (c \in guards /\ pc'[c] = "next") => outbound'[c] = <<sending[c]>>]_vars

C12_Witness ==
    \E c \in Conns :
        /\ TookCommandOf(c, "RoomInfo")
        /\ phase[c] = "Active"
        /\ pc[c] = "next"
        /\ members[room[c]] = {"u1", "u2"}
        /\ Len(outbound[c]) = 1
        /\ outbound[c][1].users = members[room[c]]
        /\ outbound[c][1].room_id = room[c]
        /\ outbound[c][1].video_allowed = FALSE

\* The close codes of error.rs.
CloseCodes == {InvalidData, InvalidState, ServerError, Unauthorized, Kicked, RoomClosed}

\* The close frame f is the one for the way connection c terminated: the
\* plain one exactly when its stream ended, else the one of the close reason
\* handle returned, with that reason's code and text.
FrameOfOutcome(c, f) ==
    /\ f.plain <=> (taken[c].src = "ws" /\ taken[c].f.k = "End")
    /\ f.plain => f = Close /\ returned[c] = Ok
    /\ ~f.plain => /\ f.code \in CloseCodes
                   /\ f.reason = to_string(f.code)
                   /\ returned[c] = Err(f.code)

\* C13 as stated: every connection that has terminated was sent exactly one
\* close frame, the plain one for a stream end and the coded one otherwise,
\* and no connection that runs has been sent one.
C13_ExactlyOneCloseFrame ==
    \A c \in Conns :
        /\ phase[c] # "Closed" => close[c] = <<>>
        /\ phase[c] = "Closed" => Len(close[c]) = 1 /\ FrameOfOutcome(c, close[c][1])

\* C13 as amended: every connection that terminates hands exactly one close
\* frame to ws_sink.send, as the last thing it does: the plain one for a
\* stream end, else the one with the code and text of its close reason, never
\* both; the frame is sent unless that send fails, and then none is; once
\* handle has returned no reply, event or error envelope follows.
C13_OneCloseFrameAttempted ==
    /\ [](\A c \in Conns :
            /\ phase[c] # "Closed" => attempted[c] = <<>> /\ close[c] = <<>>
            /\ phase[c] = "Closed"
                => /\ Len(attempted[c]) = 1
                   /\ FrameOfOutcome(c, attempted[c][1])
                   /\ close[c] \in {<<>>, attempted[c]}
            /\ phase[c] \in Ending => outbound[c] = <<>> /\ sending[c] = NoEnvelope)
    /\ [][\A c \in Conns :
            /\ phase[c] \in Ending
                => /\ outbound'[c] = outbound[c]
                   /\ sending'[c] = sending[c]
                   /\ returned'[c] = returned[c]
                   /\ taken'[c] = taken[c]
            /\ phase[c] = "Closed"
                => /\ phase'[c] = "Closed"
                   /\ close'[c] = close[c]
                   /\ attempted'[c] = attempted[c]]_vars

C13_Witness ==
    \E c \in Conns :
        /\ phase[c] = "Closed"
        /\ taken[c].phase = "Active"
        /\ returned[c] = Err(Kicked)
        /\ attempted[c] = <<CloseWith(4003, "You have been kicked!")>>
        /\ close[c] = attempted[c]

\* C14: an inbound item that has arrived (it stays pending until it is
\* taken) is eventually taken by the task, and a buffered broadcast is
\* eventually followed by the task handling a recv() result, unless the
\* connection terminates first: neither source starves the other.
C14_NeitherSourceStarves ==
    /\ (pending["c1"] # NoFrame) ~> (pending["c1"] = NoFrame \/ phase["c1"] \in Ending)
    /\ \A n \in {0, 1} :
        (phase["c1"] = "Active" /\ queue["c1"] # <<>> /\ recvs["c1"] = n)
            ~> (recvs["c1"] # n \/ phase["c1"] \in Ending)

C14_Witness ==
    /\ phase["c1"] = "Active"
    /\ pc["c1"] = "next"
    /\ pending["c1"] # NoFrame
    /\ queue["c1"] # <<>>
    /\ taken["c1"].src = "room"
    /\ taken["c1"].phase = "Active"

\* The task of connection c takes inbound item f.
TakesFrame(c, f) ==
    /\ pc[c] = "next"
    /\ \/ AuthenticateStep(c, f, TRUE)
       \/ InitializeTransportsStep(c, f, TRUE)
       \/ MessageStep(c, f, TRUE)

\* C15: an inbound item that is a transport error, a ws_sink.send of a reply,
\* error or event that fails, a transport initialization that fails and a
\* recv() that fails each terminate the connection with ServerError, and
\* nothing is sent for that input.
C15_ServerError ==
    [][\A c \in Conns :
        /\ (taken'[c].f.k = "Err" /\ TakesFrame(c, taken'[c].f))
            => ClosedWith(c, ServerError)' /\ outbound'[c] = <<>>
        /\ (phase[c] \notin Ending /\ pc[c] = "send" /\ pc'[c] # "send" /\ ~taken'[c].sendOk)
            => ClosedWith(c, ServerError)' /\ outbound'[c] = <<>>
        /\ (/\ phase[c] = "Authenticated"
            /\ pc[c] = "initialize"
            /\ pc'[c] # "initialize"
            /\ ~TransportAccepts(taken[c].f.text.data))
            => ClosedWith(c, ServerError)' /\ outbound'[c] = <<>>
        /\ (phase[c] = "Active" /\ pc[c] = "next" /\ ~Recv(c).ok /\ EventStep(c, TRUE))
            => ClosedWith(c, ServerError)' /\ outbound'[c] = <<>>]_vars

C15_Witness ==
    \E c \in Conns :
        /\ taken[c].phase = "Active"
        /\ taken[c].src = "room"
        /\ taken[c].ev.type = "UserStartProduce"
        /\ taken[c].ev.id # user_id[c]
        /\ ~taken[c].sendOk
        /\ phase[c] = "Closed"
        /\ ClosedWith(c, ServerError)
        /\ close[c] = <<CloseWith(1011, "Internal Server Error")>>
        /\ outbound[c] = <<>>

\* A forced removal of connection c is buffered in its receiver.
ForcedRemovalPending(c) ==
    \E i \in 1..Len(queue[c]) :
        queue[c][i].type = "RoomDelete" \/ IsKick(queue[c][i], user_id[c])

\* The task of connection c, in its event loop, takes f, a ConnectTransport
\* or RoomInfo command.
TakesCommand(c, f) ==
    /\ pc[c] = "next"
    /\ f.k = "Text"
    /\ f.text \in Commands
    /\ f.text.type \in PermittedIn("Active")
    /\ MessageStep(c, f, TRUE)

\* C16 as stated: once a forced removal of a connection in its event loop is
\* buffered, the connection takes no ConnectTransport or RoomInfo command and
\* sends no reply or error envelope: the removal is handled before any command.
C16_ForcedRemovalFirst ==
    [][\A c \in Conns :
        (phase[c] = "Active" /\ ForcedRemovalPending(c))
        => /\ ~TakesCommand(c, taken'[c].f)
           /\ \A i \in 1..Len(outbound'[c]) :
                outbound'[c][i].kind \in {"reply", "error"} => outbound'[c] = outbound[c]]_vars

\* C16 as amended: the iteration that takes a forced removal sends nothing
\* and terminates the connection with Kicked or RoomClosed, and a buffered
\* forced removal stays buffered until then, unless the receiver is overrun
\* or the connection terminates otherwise; select! has no priority, so a
\* permitted command can be taken while the removal is buffered, and it is
\* then handled and answered first.
C16_ForcedRemovalSerialized ==
    /\ [](\A c \in Conns :
            /\ (taken[c].src = "room" /\ taken[c].ev.type = "RoomDelete")
                => ClosedWith(c, RoomClosed) /\ outbound[c] = <<>>
            /\ (taken[c].src = "room" /\ IsKick(taken[c].ev, user_id[c]))
                => ClosedWith(c, Kicked) /\ outbound[c] = <<>>)
    /\ [][\A c \in Conns :
            (phase[c] = "Active" /\ ForcedRemovalPending(c))
            => /\ phase'[c] = "Closing" \/ lagged'[c] \/ ForcedRemovalPending(c)'
               /\ TakesCommand(c, taken'[c].f)
                    => phase'[c] = "Active" /\ pc'[c] \in {"connect", "guard"}
               /\ (TookCommand(c) /\ pc[c] = "send" /\ pc'[c] = "next")
                    => outbound'[c] = <<sending[c]>> /\ Answers(c, sending[c])]_vars

C16_Witness ==
    \E c \in Conns :
        /\ phase[c] = "Active"
        /\ pc[c] = "next"
        /\ \E i \in 1..Len(queue[c]) : IsKick(queue[c][i], user_id[c])
        /\ TookCommandOf(c, "RoomInfo")
        /\ taken[c].phase = "Active"
        /\ Len(outbound[c]) = 1
        /\ outbound[c][1].type = "RoomInfo"
        /\ user_id[c] \notin outbound[c][1].users

\* Connection c terminates after its handshake: at the entry of its event
\* loop or inside it.
EndedInEventLoop(c) ==
    phase[c] \in Ending /\ taken[c].phase \in {"Subscribing", "Active"}

\* C17: a connection that completed its handshake calls users.remove exactly
\* once, after its event loop has ended and before handle returns, whatever
\* ended the loop, and terminates with the loop's result.
C17_CleanupAfterEventLoop ==
    /\ [](\A c \in Conns :
            /\ phase[c] \in {"Subscribing", "Active"} => removeCalls[c] = 0
            /\ EndedInEventLoop(c)
                => /\ pc[c] \in {"remove", "close", "done"}
                   /\ removeCalls[c] = IF pc[c] = "remove" THEN 0 ELSE 1
                   /\ CASE taken[c].src = "subscribe" -> ClosedWith(c, RoomClosed)
                        [] taken[c].src = "ws" /\ taken[c].f.k = "End" -> ClosedPlain(c)
                        [] taken[c].src = "ws" /\ taken[c].f.k = "Err" ->
                                ClosedWith(c, ServerError)
                        [] TookText(c) /\ taken[c].f.text \notin Commands ->
                                ClosedWith(c, InvalidData)
                        [] TookCommand(c)
                           /\ taken[c].f.text.type \notin PermittedIn("Active") ->
                                ClosedWith(c, InvalidState)
                        [] taken[c].src = "room" /\ taken[c].ev.type = "RoomDelete" ->
                                ClosedWith(c, RoomClosed)
                        [] taken[c].src = "room" /\ IsKick(taken[c].ev, user_id[c]) ->
                                ClosedWith(c, Kicked)
                        [] OTHER -> ClosedWith(c, ServerError))
    /\ [][\A c \in Conns :
            /\ (phase[c] \in {"Subscribing", "Active"} /\ phase'[c] = "Closing")
                => pc'[c] = "remove"
            /\ (EndedInEventLoop(c) /\ pc[c] = "remove" /\ pc'[c] # "remove")
                => /\ members' = [members EXCEPT ![room[c]] = @ \ {user_id[c]}]
                   /\ removeCalls'[c] = 1
                   /\ returned'[c] = returned[c]
                   /\ pc'[c] = "close"]_vars

C17_Witness ==
    \E c \in Conns :
        /\ EndedInEventLoop(c)
        /\ taken[c].src = "subscribe"
        /\ phase[c] = "Closed"
        /\ ClosedWith(c, RoomClosed)
        /\ removeCalls[c] = 1
        /\ user_id[c] \notin members[room[c]]

\* C18: an inbound item that is not text (a ping, a binary message) is taken
\* and ignored in every phase: nothing is sent, and the connection's phase,
\* bindings and registration stay as they are.
C18_NonTextIgnored ==
    /\ [](\A c \in Conns :
            (taken[c].src = "ws" /\ taken[c].f.k = "NonText")
                => /\ phase[c] = taken[c].phase
                   /\ pc[c] = "next"
                   /\ outbound[c] = <<>>
                   /\ sending[c] = NoEnvelope
                   /\ attempted[c] = <<>>)
    /\ [][\A c \in Conns :
            (taken'[c].f.k = "NonText" /\ TakesFrame(c, taken'[c].f))
                => /\ outbound'[c] = <<>>
                   /\ UNCHANGED <<phase, pc, room, user_id, rtc, sending, returned,
                                  attempted, close, members, guards, removeCalls,
                                  registerCalls, queue, lagged>>]_vars

C18_Witness ==
    \E c \in Conns :
        /\ taken[c].src = "ws"
        /\ taken[c].f.k = "NonText"
        /\ taken[c].phase = "Authenticated"
        /\ phase[c] = "Authenticated"
        /\ user_id[c] \in members[room[c]]
        /\ outbound[c] = <<>>

\* The phases before the event loop's subscription.
Handshake == {"Unauthenticated", "Authenticated", "Subscribing"}

\* C19: a connection that has not yet subscribed has no receiver, so no
\* broadcast reaches it: it forwards no event, is not terminated by a kick or
\* a room deletion that is broadcast, and what it sends is the reply of its
\* phase's command.
C19_NoEventsBeforeSubscription ==
    /\ [](\A c \in Conns :
            /\ phase[c] \in Handshake
                => queue[c] = <<>> /\ ~lagged[c] /\ owed[c] = {} /\ c \notin deleted
            /\ taken[c].phase \in Handshake
                => /\ taken[c].src # "room"
                   /\ returned[c] # Err(Kicked)
                   /\ sending[c].kind # "event"
                   /\ outbound[c] # <<>>
                        => /\ Len(outbound[c]) = 1
                           /\ outbound[c][1].kind = "reply"
                           /\ outbound[c][1].type \in PermittedIn(taken[c].phase)
                           /\ phase[c] = PhaseAfter(taken[c].phase))
    /\ [][\A c \in Conns :
            phase[c] \in Handshake => queue'[c] = <<>> /\ ~lagged'[c]]_vars

C19_Witness ==
    \E c \in Conns :
        /\ phase[c] = "Subscribing"
        /\ missed[c] # {}
        /\ queue[c] = <<>>
        /\ outbound[c] = <<InitializeTransportsReply(None)>>

\* C20: a connection calls users.register at most once and users.remove at
\* most once, the removal only after a successful registration, for the
\* user registered, as handle returns.
C20_RegisterAndRemoveOnce ==
    /\ [](\A c \in Conns :
            /\ registerCalls[c] <= 1
            /\ removeCalls[c] <= 1
            /\ user_id[c] # None => registerCalls[c] = 1
            /\ user_id[c] = None => removeCalls[c] = 0 /\ pc[c] # "remove"
            /\ pc[c] = "remove" => phase[c] = "Closing"
            /\ (phase[c] = "Unauthenticated" /\ pc[c] \in {"next", "get", "register"})
                => registerCalls[c] = 0)
    /\ [][\A c \in Conns :
            /\ removeCalls'[c] # removeCalls[c]
                => /\ pc[c] = "remove"
                   /\ user_id[c] # None
                   /\ members' = [members EXCEPT ![room[c]] = @ \ {user_id[c]}]
            /\ registerCalls'[c] # registerCalls[c]
                => /\ phase[c] = "Unauthenticated"
                   /\ pc[c] = "register"
                   /\ removeCalls'[c] = 0]_vars

C20_Witness ==
    \E c \in Conns :
        /\ phase[c] = "Closed"
        /\ registerCalls[c] = 1
        /\ removeCalls[c] = 1
        /\ user_id[c] # None
        /\ user_id[c] \notin members[room[c]]

====
